---- MODULE Spec2Model ----
\* Cycle-accurate model of custom_ipcores/pdm.py: EdgeDetector, CIC_FILTER and
\* PDM_TO_PCM.  One state of the model is one system-clock tick: the registers
\* hold the values they have during that tick and the input signals hold the
\* values that the next clock edge samples.
EXTENDS Integers, Sequences, FiniteSets, TLC

VARIABLES
    \* configuration, fixed at construction
    M, R, W, sys_clk_freq, fs_in, dw, scale_factor, pdm_clk_drive_f,
    \* "none" before PDM_TO_PCM(...) is called, then "built" or "rejected"
    built,
    \* CIC_FILTER signals
    cic_input, cic_fs, cic_cnt, cic_ena, cic_valid, cic_buff,
    cic_di, cic_comb0, cic_dc,
    \* EdgeDetector signals (reset is the one ResetInserter adds)
    edt_i, edt_reset, edt_cnt,
    \* PDM_TO_PCM signals
    ena, pdm_dat, fs, buff, buff_r, buff_l, is_right_chan, cnt, br_cnt,
    pulse_cnt, i2s_pulse_ena, pdm_clk_drive, i2s_sck, i2s_ws,
    \* observers of the filter: elapsed ticks, strobes seen before this tick
    \* and before the previous one, valid ticks seen so far, the constant fed
    \* by the gain run
    tick, strobes, strobes_p, nvalid, cx,
    \* observer of the edge detector: the inputs sampled so far
    i_hist,
    \* observers of the converter
    drops,      \* times enable has gone from 1 to 0
    ena_p,      \* enable as the last edge sampled it
    valid_p,    \* the filter's valid on the previous tick
    ena_run,    \* consecutive edges that sampled enable high, up to N
    since_fs,   \* ticks since fs was high with enable high throughout, or -1
    per_high,   \* ticks with the clock drive high since fs was last high
    sck_age,    \* pulse-enabled edges since i2s_sck last toggled
    ws_age,     \* toggles of i2s_sck since i2s_ws last toggled
    ws_par,     \* parity of the number of toggles of i2s_ws
    tx_val,     \* the value copied at the last load
    tx_n,       \* rising edges of i2s_sck seen since that load, or -1
    tx_new,     \* 1 when i2s_sck rose at the last edge within a tracked word
    ld_n,       \* loads since i2s_ws last toggled
    \* the filter's registers as they would be without the nbit limit
    u_buff, u_di, u_comb0, u_dc,
    \* the alternating test pattern: strobes per run of equal bits and strobes
    \* sampled in the current run
    run_len, run_pos,
    \* observers of the single-stage filter: the last R inputs latched, their
    \* sum as of the last strobe that completed a group of R, and that sum one
    \* tick earlier
    win, trig_sum, trig_sum_p,
    \* observers of the sample flow: samples latched into buff since the left
    \* buffer was last loaded (up to 2), and 1 once it has been loaded
    lat_n, had_left

cfgVars == <<M, R, W, sys_clk_freq, fs_in, dw, scale_factor, pdm_clk_drive_f,
             built>>
cicVars == <<cic_input, cic_fs, cic_cnt, cic_ena, cic_valid, cic_buff,
             cic_di, cic_comb0, cic_dc>>
edtVars == <<edt_i, edt_reset, edt_cnt>>
pdmVars == <<ena, pdm_dat, fs, buff, buff_r, buff_l, is_right_chan, cnt, br_cnt,
             pulse_cnt, i2s_pulse_ena, pdm_clk_drive, i2s_sck, i2s_ws>>
obsVars == <<tick, strobes, strobes_p, nvalid, cx, i_hist>>
pdmObs == <<drops, ena_p, valid_p, ena_run, since_fs, per_high, sck_age, ws_age,
            ws_par, tx_val, tx_n, tx_new, ld_n>>
refVars == <<u_buff, u_di, u_comb0, u_dc>>
patVars == <<run_len, run_pos>>
winVars == <<win, trig_sum, trig_sum_p>>
latVars == <<lat_n, had_left>>
vars == <<cfgVars, cicVars, edtVars, pdmVars, obsVars, pdmObs, refVars,
          patVars, winVars, latVars>>

-----------------------------------------------------------------------------
\* Bounds of the model

MaxM == 2
MaxR == 3
MaxW == 2
MaxTicks == 9
MaxGainTicks == 15
MaxEdgeTicks == 7
MaxSysClk == 8
MaxCtlClk == 12
MaxFrames == 3
MaxDrops == 1
ZeroFrames == 7
MaxDivClk == 9
MaxDivRate == 4

-----------------------------------------------------------------------------
\* Fixed-width arithmetic

Bit == {0, 1}

Not(b) == 1 - b

RECURSIVE CeilLog2(_)
CeilLog2(x) == IF x <= 1 THEN 0 ELSE 1 + CeilLog2((x + 1) \div 2)

\* an n-bit signed signal that saturates instead of wrapping
Saturate(v, n) ==
    IF v > 2 ^ (n - 1) - 1 THEN 2 ^ (n - 1) - 1
    ELSE IF v < 0 - 2 ^ (n - 1) THEN 0 - 2 ^ (n - 1)
    ELSE v

\* the value an n-bit signed signal holds after it is assigned v
Wrap(v, n) ==
    LET m == v % (2 ^ n)
    IN  IF m >= 2 ^ (n - 1) THEN m - 2 ^ n ELSE m

\* bit k (0 = least significant) of the two's-complement value v
BitOf(v, k) == (v \div (2 ^ k)) % 2

\* the values of a signed n-bit quantity
SignedRange(n) == (0 - 2 ^ (n - 1)) .. (2 ^ (n - 1) - 1)

-----------------------------------------------------------------------------
\* EdgeDetector (wrapped in ResetInserter by PDM_TO_PCM)

edt_r == IF edt_cnt = 1 THEN 1 ELSE 0

edt_f == IF edt_cnt = 2 THEN 1 ELSE 0

EdtShiftBack == 2 * edt_i + (edt_cnt \div 2)

\* cnt[1] <- cnt[0], cnt[0] <- i
EdtShift == 2 * (edt_cnt % 2) + edt_i

EdtTick == edt_cnt' = IF edt_reset = 1 THEN 0 ELSE EdtShift

-----------------------------------------------------------------------------
\* CIC_FILTER

Nbit(w, m, r) == w + CeilLog2(r ^ m)

nbit == Nbit(W, M, R)

RECURSIVE intg(_)
intg(i) ==
    IF i = 1 THEN Wrap(cic_buff + cic_di[1], nbit)
    ELSE Wrap(intg(i - 1) + cic_di[i], nbit)

RECURSIVE comb(_)
comb(i) ==
    IF i = 1 THEN cic_comb0
    ELSE Wrap(comb(i - 1) - cic_dc[i - 1], nbit)

cic_output == Wrap(comb(M) - cic_dc[M], nbit)

CicCountingLate == cic_cnt < R

CicCounting == cic_cnt < (R - 1)

CicValidGated == IF cic_fs = 1 THEN cic_ena ELSE cic_valid

CicValidNext == cic_ena

CicComb0First == IF cic_ena = 1 THEN intg(1) ELSE cic_comb0

CicComb0Next == IF cic_ena = 1 THEN intg(M) ELSE cic_comb0

CicDiAlways == [i \in 1..M |-> intg(i)]

CicDiNext == [i \in 1..M |-> IF cic_fs = 1 THEN intg(i) ELSE cic_di[i]]

CicDcOnFs == [i \in 1..M |-> IF cic_fs = 1 THEN comb(i) ELSE cic_dc[i]]

CicDcNext == [i \in 1..M |-> IF cic_ena = 1 THEN comb(i) ELSE cic_dc[i]]

\* the synchronous update of the filter's registers at one clock edge
CicTick ==
    /\ cic_valid' = CicValidNext
    /\ cic_comb0' = CicComb0Next
    /\ IF cic_fs = 1
       THEN /\ cic_buff' = Wrap(cic_input, nbit)
            /\ IF CicCounting
               THEN cic_cnt' = cic_cnt + 1 /\ cic_ena' = 0
               ELSE cic_ena' = 1 /\ cic_cnt' = 0
       ELSE /\ cic_ena' = 0
            /\ UNCHANGED <<cic_buff, cic_cnt>>
    /\ cic_di' = CicDiNext
    /\ cic_dc' = CicDcNext

CicReset ==
    /\ cic_cnt = 0 /\ cic_ena = 0 /\ cic_valid = 0 /\ cic_buff = 0
    /\ cic_comb0 = 0
    /\ cic_di = [i \in 1..M |-> 0]
    /\ cic_dc = [i \in 1..M |-> 0]

\* the inputs the filter is driven with: the two ends of the signed W-bit range
CicInputs(w) == {0 - 2 ^ (w - 1), 2 ^ (w - 1) - 1}

\* the filter can be built: every Signal(min=MIN, max=MAX) needs MIN < MAX - 1
CicConfigs ==
    {c \in [M : 1..MaxM, R : 1..MaxR, W : 1..MaxW] : Nbit(c.W, c.M, c.R) >= 2}

-----------------------------------------------------------------------------
\* CIC_FILTER over unbounded integers: the same equations and the same
\* updates, no register limited to nbit bits

RECURSIVE u_intg(_)
u_intg(i) ==
    IF i = 1 THEN u_buff + u_di[1]
    ELSE u_intg(i - 1) + u_di[i]

RECURSIVE u_comb(_)
u_comb(i) ==
    IF i = 1 THEN u_comb0
    ELSE u_comb(i - 1) - u_dc[i - 1]

u_output == u_comb(M) - u_dc[M]

\* driven by the filter's own fs, input and decimate-enable
RefTick ==
    /\ u_comb0' = IF cic_ena = 1 THEN u_intg(M) ELSE u_comb0
    /\ u_buff' = IF cic_fs = 1 THEN cic_input ELSE u_buff
    /\ u_di' = [i \in 1..M |-> IF cic_fs = 1 THEN u_intg(i) ELSE u_di[i]]
    /\ u_dc' = [i \in 1..M |-> IF cic_ena = 1 THEN u_comb(i) ELSE u_dc[i]]

RefReset ==
    /\ u_buff = 0 /\ u_comb0 = 0
    /\ u_di = [i \in 1..M |-> 0]
    /\ u_dc = [i \in 1..M |-> 0]

-----------------------------------------------------------------------------
\* PDM_TO_PCM

\* the nearest integer to clk / f
NOfRound(clk, f) == (2 * clk + f) \div (2 * f)

\* int(sys_clk_freq / fs_in)
NOf(clk, f) == clk \div f

KOf(n, r, d) == (n * r) \div (4 * d)

N == NOf(sys_clk_freq, fs_in)

K == KOf(N, R, dw)

ScaleShift == CeilLog2(scale_factor)

pdm_sel == IF pdm_clk_drive_f THEN 0 ELSE 1

pdm_clk_direct == pdm_clk_drive

pdm_clk == IF pdm_clk_drive_f THEN pdm_clk_drive ELSE Not(pdm_clk_drive)

i2s_so_ws ==
    IF i2s_ws = 1 THEN BitOf(buff_r, dw - 1) ELSE BitOf(buff_l, dw - 1)

\* the most significant bit of the active channel's buffer
i2s_so ==
    IF is_right_chan = 1 THEN BitOf(buff_r, dw - 1) ELSE BitOf(buff_l, dw - 1)

BuffNextGated ==
    IF cic_valid = 1 /\ ena = 1
    THEN Wrap(cic_output \div (2 ^ ScaleShift), dw)
    ELSE buff

\* cic.output >> ceil(log2(scale_factor)), cut to the dw bits of buff
BuffNext ==
    IF cic_valid = 1 THEN Wrap(cic_output \div (2 ^ ScaleShift), dw) ELSE buff

PulseEnaSetWins ==
    IF cic_valid = 1 THEN 1
    ELSE IF ena = 0 THEN 0 ELSE i2s_pulse_ena

\* the set on valid comes first in the sync list, the clear on ~ena last
PulseEnaNext ==
    IF ena = 0 THEN 0
    ELSE IF cic_valid = 1 THEN 1 ELSE i2s_pulse_ena

BrCountingLate == br_cnt < K

BrCounting == br_cnt < (K - 1)

PulseCountingLate == pulse_cnt < 2 * dw

PulseCounting == pulse_cnt < 2 * dw - 1

\* the bit-clock divider of the framer
ClockTick ==
    IF i2s_pulse_ena = 1
    THEN IF BrCounting
         THEN /\ br_cnt' = br_cnt + 1
              /\ UNCHANGED <<i2s_sck, pulse_cnt, i2s_ws>>
         ELSE /\ i2s_sck' = Not(i2s_sck)
              /\ br_cnt' = 0
              /\ IF PulseCounting
                 THEN /\ pulse_cnt' = (pulse_cnt + 1) % (2 ^ 8)
                      /\ UNCHANGED i2s_ws
                 ELSE /\ i2s_ws' = Not(i2s_ws)
                      /\ pulse_cnt' = 0
    ELSE UNCHANGED <<br_cnt, i2s_sck, pulse_cnt, i2s_ws>>

LoadPoint == pulse_cnt = 2

\* the channel buffers: load on the falling edge at the load point, shift on
\* every other falling edge
ShiftTick ==
    IF i2s_pulse_ena = 1 /\ edt_f = 1
    THEN IF LoadPoint
         THEN IF i2s_ws = 1
              THEN /\ buff_r' = buff
                   /\ is_right_chan' = 1
                   /\ UNCHANGED buff_l
              ELSE /\ buff_l' = buff
                   /\ is_right_chan' = 0
                   /\ UNCHANGED buff_r
         ELSE IF is_right_chan = 1
              THEN /\ buff_r' = Wrap(buff_r * 2, dw)
                   /\ UNCHANGED <<buff_l, is_right_chan>>
              ELSE /\ buff_l' = Wrap(buff_l * 2, dw)
                   /\ UNCHANGED <<buff_r, is_right_chan>>
    ELSE UNCHANGED <<buff_r, buff_l, is_right_chan>>

RateCountingLate == cnt < N

RateCounting == cnt < (N - 1)

MidPointLate == cnt = N \div 2

MidPoint == cnt = (N \div 2) - 1

\* the sample-rate generator
RateTick ==
    IF ena = 1
    THEN IF RateCounting
         THEN /\ cnt' = cnt + 1
              /\ fs' = 0
              /\ pdm_clk_drive' = IF MidPoint THEN 0 ELSE pdm_clk_drive
         ELSE /\ fs' = 1
              /\ pdm_clk_drive' = 1
              /\ cnt' = 0
    ELSE /\ fs' = 0
         /\ pdm_clk_drive' = 0
         /\ UNCHANGED cnt

\* the combinational wiring of the submodules, which holds on every tick
Wired ==
    /\ cic_fs = fs
    /\ cic_input = pdm_dat
    /\ edt_i = i2s_sck
    /\ edt_reset = Not(ena)

WiredNext ==
    /\ cic_fs' = fs'
    /\ cic_input' = pdm_dat'
    /\ edt_i' = i2s_sck'
    /\ edt_reset' = Not(ena')

\* one clock edge of the converter
PdmTick ==
    /\ buff' = BuffNext
    /\ i2s_pulse_ena' = PulseEnaNext
    /\ ClockTick
    /\ ShiftTick
    /\ RateTick
    /\ CicTick
    /\ EdtTick

PdmResetSckHigh ==
    /\ fs = 0 /\ buff = 0 /\ buff_r = 0 /\ buff_l = 0 /\ is_right_chan = 0
    /\ cnt = 0 /\ br_cnt = 0 /\ pulse_cnt = 0 /\ i2s_pulse_ena = 0
    /\ pdm_clk_drive = 0 /\ i2s_sck = 1 /\ i2s_ws = 0

PdmReset ==
    /\ fs = 0 /\ buff = 0 /\ buff_r = 0 /\ buff_l = 0 /\ is_right_chan = 0
    /\ cnt = 0 /\ br_cnt = 0 /\ pulse_cnt = 0 /\ i2s_pulse_ena = 0
    /\ pdm_clk_drive = 0 /\ i2s_sck = 0 /\ i2s_ws = 0

\* the configurations explored: word width, stage count, scale factors and
\* microphone clock rate are fixed small choices, the system clock and the
\* decimation ratio range up to their bounds
PdmWidths == {2}
PdmStages == {1}
PdmScales == {1, 2}
PdmRates == {1}

\* the converter can be built: the filter has W = 1, buff needs dw >= 2 and
\* br_cnt = Signal(max=K+1) needs K >= 1
Buildable(c) ==
    /\ Nbit(1, c.M, c.R) >= 2
    /\ c.dw >= 2
    /\ NOf(c.sys_clk_freq, c.fs_in) >= 1
    /\ KOf(NOf(c.sys_clk_freq, c.fs_in), c.R, c.dw) >= 1

\* the same but for br_cnt: every other signal can be declared
Declarable(c) ==
    /\ Nbit(1, c.M, c.R) >= 2
    /\ c.dw >= 2
    /\ NOf(c.sys_clk_freq, c.fs_in) >= 1

PdmConfigs ==
    {c \in [sys_clk_freq : 1..MaxSysClk, fs_in : PdmRates, M : PdmStages,
            R : 1..MaxR, dw : PdmWidths, scale_factor : PdmScales,
            pdm_clk_drive_f : BOOLEAN] : Buildable(c)}

\* the configurations of the runs with a silent microphone: faster system
\* clocks and a second word width
CtlWidths == {2, 3}

CtlConfigs ==
    {c \in [sys_clk_freq : 1..MaxCtlClk, fs_in : PdmRates, M : PdmStages,
            R : 1..MaxR, dw : CtlWidths, scale_factor : {1},
            pdm_clk_drive_f : BOOLEAN] : Buildable(c)}

-----------------------------------------------------------------------------
\* Observers

ObserveCic ==
    /\ tick' = tick + 1
    /\ strobes' = strobes + cic_fs
    /\ strobes_p' = strobes
    /\ nvalid' = nvalid + cic_valid'

ObsReset ==
    /\ tick = 0 /\ strobes = 0 /\ strobes_p = 0 /\ nvalid = 0
    /\ i_hist = <<>>
    /\ win = <<>> /\ trig_sum = 0 /\ trig_sum_p = 0
    /\ lat_n = 0 /\ had_left = 0

SckToggles == i2s_sck' # i2s_sck

SckRises == i2s_sck = 0 /\ i2s_sck' = 1

WsToggles == i2s_ws' # i2s_ws

\* the edge copies the holding buffer into a channel buffer
Loading == i2s_pulse_ena = 1 /\ edt_f = 1 /\ LoadPoint

ObservePdm ==
    /\ nvalid' = nvalid + cic_valid'
    /\ drops' = IF ena = 1 /\ ena' = 0 THEN drops + 1 ELSE drops
    /\ ena_p' = ena
    /\ valid_p' = cic_valid
    /\ ena_run' = IF ena = 0 THEN 0
                  ELSE IF ena_run < N THEN ena_run + 1 ELSE ena_run
    /\ since_fs' = IF ena = 0 THEN 0 - 1
                   ELSE IF fs' = 1 THEN 0
                   ELSE IF since_fs >= 0 /\ since_fs <= N THEN since_fs + 1
                   ELSE since_fs
    /\ per_high' = IF ena = 0 THEN 0
                   ELSE IF fs' = 1 THEN pdm_clk_drive'
                   ELSE IF per_high <= N THEN per_high + pdm_clk_drive'
                   ELSE per_high
    /\ sck_age' = IF SckToggles THEN 0
                  ELSE IF i2s_pulse_ena = 1 /\ sck_age <= K THEN sck_age + 1
                  ELSE sck_age
    /\ ws_age' = IF WsToggles THEN 0
                 ELSE IF SckToggles /\ ws_age <= 2 * dw THEN ws_age + 1
                 ELSE ws_age
    /\ ws_par' = IF WsToggles THEN Not(ws_par) ELSE ws_par
    /\ tx_val' = IF Loading THEN buff ELSE tx_val
    /\ tx_n' = IF ena = 0 THEN 0 - 1
               ELSE IF Loading THEN (IF SckRises THEN 1 ELSE 0)
               ELSE IF tx_n >= 0 /\ tx_n < dw /\ SckRises THEN tx_n + 1
               ELSE IF tx_n = dw /\ SckRises THEN 0 - 1
               ELSE tx_n
    /\ tx_new' = IF ena = 1 /\ SckRises /\ (Loading \/ (tx_n >= 0 /\ tx_n < dw))
                 THEN 1 ELSE 0
    /\ ld_n' = IF WsToggles THEN 0
               ELSE IF Loading /\ ld_n < 2 THEN ld_n + 1
               ELSE ld_n

PdmObsReset ==
    /\ drops = 0 /\ ena_p = 1 /\ valid_p = 0 /\ ena_run = 0
    /\ since_fs = 0 - 1 /\ per_high = 0 /\ sck_age = 0 /\ ws_age = 0
    /\ ws_par = 0 /\ tx_val = 0 /\ tx_n = 0 - 1 /\ tx_new = 0
    /\ ld_n = 0

\* no test pattern is driven
PatIdle == run_len = 1 /\ run_pos = 0

\* the parts a run of one component alone leaves at rest
PdmIdle ==
    /\ sys_clk_freq = 1 /\ fs_in = 1 /\ dw = 2 /\ scale_factor = 1
    /\ pdm_clk_drive_f = TRUE
    /\ built = "built"
    /\ ena = 0 /\ pdm_dat = 0
    /\ PdmReset
    /\ PdmObsReset
    /\ PatIdle

EdtIdle == edt_i = 0 /\ edt_reset = 0 /\ edt_cnt = 0

-----------------------------------------------------------------------------
\* The converter: any PDM bit on every tick, enable free but dropped at most
\* MaxDrops times, until MaxFrames samples have left the filter

InitPdm(dats, configs) ==
    /\ \E c \in configs :
        /\ M = c.M /\ R = c.R /\ W = 1
        /\ sys_clk_freq = c.sys_clk_freq /\ fs_in = c.fs_in /\ dw = c.dw
        /\ scale_factor = c.scale_factor
        /\ pdm_clk_drive_f = c.pdm_clk_drive_f
    /\ built = "built"
    /\ PdmReset
    /\ CicReset
    /\ edt_cnt = 0
    /\ ena \in Bit
    /\ pdm_dat \in dats
    /\ Wired
    /\ ObsReset
    /\ PdmObsReset
    /\ PatIdle
    /\ RefReset
    /\ cx = 0

\* one clock edge of the converter with its inputs and observers
StepPdm(dats, maxDrops) ==
    /\ PdmTick
    /\ ena' \in Bit
    /\ pdm_dat' \in dats
    /\ WiredNext
    /\ ObservePdm
    /\ drops' <= maxDrops
    /\ UNCHANGED <<cfgVars, cx, i_hist, winVars>>

TickPdm(dats, maxDrops) ==
    /\ nvalid < MaxFrames
    /\ StepPdm(dats, maxDrops)
    /\ UNCHANGED <<tick, strobes, strobes_p, refVars, patVars, latVars>>

Init == InitPdm(Bit, PdmConfigs)

Tick == TickPdm(Bit, MaxDrops)

Next == Tick

Spec == Init /\ [][Next]_vars

\* The converter with a silent microphone (the PDM bit held at 0), for the
\* timing of the clocks and strobes, which no data bit influences

InitCtl == InitPdm({0}, CtlConfigs)

TickCtl == TickPdm({0}, MaxDrops)

NextCtl == TickCtl

SpecCtl == InitCtl /\ [][NextCtl]_vars

\* The converter with enable never dropped once it is high, for what is
\* promised while the converter stays enabled

InitRun == InitPdm(Bit, PdmConfigs)

TickRun == TickPdm(Bit, 0)

NextRun == TickRun

SpecRun == InitRun /\ [][NextRun]_vars

\* The converter with any PDM bit and enable dropped at most MaxDrops times,
\* for one system clock, a filter as wide as buff (R = 2) and one wider
\* (R = 3), with and without scaling

HoldClocks == {4}
HoldRatios == {2, 3}

HoldConfigs ==
    {c \in [sys_clk_freq : HoldClocks, fs_in : PdmRates, M : PdmStages,
            R : HoldRatios, dw : PdmWidths, scale_factor : PdmScales,
            pdm_clk_drive_f : {TRUE}] : Buildable(c)}

InitHold == InitPdm(Bit, HoldConfigs)

TickHold == TickPdm(Bit, MaxDrops)

NextHold == TickHold

SpecHold == InitHold /\ [][NextHold]_vars

\* The converter with a silent microphone and enable never dropped, for every
\* system clock and microphone clock rate up to their bounds, exact ratios and
\* inexact ones

DivRatios == {8}

DivConfigs ==
    {c \in [sys_clk_freq : 1..MaxDivClk, fs_in : 1..MaxDivRate, M : PdmStages,
            R : DivRatios, dw : PdmWidths, scale_factor : {1},
            pdm_clk_drive_f : {TRUE}] : Buildable(c)}

InitDiv == InitPdm({0}, DivConfigs)

TickDiv == TickPdm({0}, 0)

NextDiv == TickDiv

SpecDiv == InitDiv /\ [][NextDiv]_vars

\* Construction: PDM_TO_PCM(...) is called with any parameters for which the
\* signals other than br_cnt can be declared.  __init__ holds no check of K.
\* br_cnt = Signal(max=K+1) trips the range assertion inside Signal when
\* K = 0; an assert statement is skipped when Python runs with -O, so the call
\* then either raises or returns an instance.  A built instance is then
\* clocked with enable free and a silent microphone.

BuildConfigs ==
    {c \in [sys_clk_freq : 1..MaxSysClk, fs_in : PdmRates, M : PdmStages,
            R : 1..MaxR, dw : CtlWidths, scale_factor : {1},
            pdm_clk_drive_f : {TRUE}] : Declarable(c)}

Cfg ==
    [sys_clk_freq |-> sys_clk_freq, fs_in |-> fs_in, M |-> M, R |-> R,
     dw |-> dw, scale_factor |-> scale_factor,
     pdm_clk_drive_f |-> pdm_clk_drive_f]

InitBuild ==
    /\ \E c \in BuildConfigs :
        /\ M = c.M /\ R = c.R /\ W = 1
        /\ sys_clk_freq = c.sys_clk_freq /\ fs_in = c.fs_in /\ dw = c.dw
        /\ scale_factor = c.scale_factor
        /\ pdm_clk_drive_f = c.pdm_clk_drive_f
    /\ built = "none"
    /\ PdmReset
    /\ CicReset
    /\ edt_cnt = 0
    /\ ena = 0
    /\ pdm_dat = 0
    /\ Wired
    /\ ObsReset
    /\ PdmObsReset
    /\ PatIdle
    /\ RefReset
    /\ cx = 0

Construct ==
    /\ built = "none"
    /\ \E asserts \in BOOLEAN :
        built' = IF Buildable(Cfg) THEN "built"
                 ELSE IF asserts THEN "rejected"
                 ELSE "built"
    /\ UNCHANGED <<M, R, W, sys_clk_freq, fs_in, dw, scale_factor,
                   pdm_clk_drive_f, cicVars, edtVars, pdmVars, obsVars,
                   pdmObs, refVars, patVars, winVars, latVars>>

TickBuild ==
    /\ built = "built"
    /\ TickPdm({0}, MaxDrops)

NextBuild == Construct \/ TickBuild

SpecBuild == InitBuild /\ [][NextBuild]_vars

\* The converter with enable never dropped, beside a count of the samples
\* latched into the holding buffer since the last load of the left channel
\* buffer

LeftLoading == Loading /\ i2s_ws = 0

ObserveLatch ==
    /\ lat_n' = IF LeftLoading THEN cic_valid
                ELSE IF lat_n + cic_valid <= 2 THEN lat_n + cic_valid
                ELSE 2
    /\ had_left' = IF LeftLoading THEN 1 ELSE had_left

InitFlow == InitPdm(Bit, PdmConfigs)

TickFlow ==
    /\ nvalid < MaxFrames
    /\ StepPdm(Bit, 0)
    /\ ObserveLatch
    /\ UNCHANGED <<tick, strobes, strobes_p, refVars, patVars>>

NextFlow == TickFlow

SpecFlow == InitFlow /\ [][NextFlow]_vars

\* The converter alone, with any PDM bit and any enable on every tick and no
\* limit on the length of the run (the state of the converter is finite),
\* over clock ratios from 1, for the ranges of the counters

\* pairs of sys_clk_freq and R: N = 1, 2 and 4 with K = 1, and N = 8 with K = 2
PhasePairs == {<<1, 8>>, <<2, 4>>, <<4, 2>>, <<8, 2>>}

PhaseConfigs ==
    {c \in [sys_clk_freq : {p[1] : p \in PhasePairs}, fs_in : PdmRates,
            M : PdmStages, R : {p[2] : p \in PhasePairs}, dw : PdmWidths,
            scale_factor : {1}, pdm_clk_drive_f : {TRUE}] :
        /\ <<c.sys_clk_freq, c.R>> \in PhasePairs
        /\ Buildable(c)}

InitPhase == InitPdm(Bit, PhaseConfigs)

TickPhase ==
    /\ PdmTick
    /\ ena' \in Bit
    /\ pdm_dat' \in Bit
    /\ WiredNext
    /\ UNCHANGED <<cfgVars, obsVars, pdmObs, refVars, patVars, winVars,
                   latVars>>

NextPhase == TickPhase

SpecPhase == InitPhase /\ [][NextPhase]_vars

\* The converter beside the unbounded filter: enable never dropped, any PDM
\* bit, one and two stages, a decimation ratio that is a power of two and one
\* that is not

WideClocks == {4}
WideStages == {1, 2}
WideRatios == {2, 3}

WideConfigs ==
    {c \in [sys_clk_freq : WideClocks, fs_in : PdmRates, M : WideStages,
            R : WideRatios, dw : PdmWidths, scale_factor : {1},
            pdm_clk_drive_f : {TRUE}] : Buildable(c)}

\* the strobes the filter has sampled
ObserveStrobes ==
    /\ strobes' = strobes + cic_fs
    /\ strobes_p' = strobes
    /\ UNCHANGED tick

InitWide == InitPdm(Bit, WideConfigs)

TickWide ==
    /\ nvalid < MaxFrames
    /\ StepPdm(Bit, 0)
    /\ RefTick
    /\ ObserveStrobes
    /\ UNCHANGED <<patVars, latVars>>

NextWide == TickWide

SpecWide == InitWide /\ [][NextWide]_vars

\* The converter of the zero-mean scenario: M = 3, R = 50, dw = 16, the default
\* scale factor, the fastest microphone clock (N = 2), and a PDM input of
\* equal runs of 0 and 1, each run_len strobes long

ZeroRuns == {1, 5}

ZeroConfigs ==
    {c \in [sys_clk_freq : {2}, fs_in : {1}, M : {3}, R : {50}, dw : {16},
            scale_factor : {100}, pdm_clk_drive_f : {TRUE}] : Buildable(c)}

\* the bit changes after the filter has sampled run_len strobes of it
PatternTick ==
    /\ run_len' = run_len
    /\ IF cic_fs = 1
       THEN IF run_pos + 1 = run_len
            THEN run_pos' = 0 /\ pdm_dat' = Not(pdm_dat)
            ELSE run_pos' = run_pos + 1 /\ pdm_dat' = pdm_dat
       ELSE run_pos' = run_pos /\ pdm_dat' = pdm_dat

InitZero ==
    /\ \E c \in ZeroConfigs :
        /\ M = c.M /\ R = c.R /\ W = 1
        /\ sys_clk_freq = c.sys_clk_freq /\ fs_in = c.fs_in /\ dw = c.dw
        /\ scale_factor = c.scale_factor
        /\ pdm_clk_drive_f = c.pdm_clk_drive_f
    /\ built = "built"
    /\ PdmReset
    /\ CicReset
    /\ edt_cnt = 0
    /\ ena \in Bit
    /\ pdm_dat \in Bit
    /\ Wired
    /\ ObsReset
    /\ PdmObsReset
    /\ run_len \in ZeroRuns /\ run_pos = 0
    /\ RefReset
    /\ cx = 0

TickZero ==
    /\ nvalid < ZeroFrames
    /\ StepPdm(Bit, 0)
    /\ PatternTick
    /\ ObserveStrobes
    /\ UNCHANGED <<refVars, latVars>>

NextZero == TickZero

SpecZero == InitZero /\ [][NextZero]_vars

-----------------------------------------------------------------------------
\* The filter alone, driven as by CIC_FILTER_TB: any strobe pattern, inputs at
\* the ends of the signed W-bit range

InitCIC ==
    /\ \E c \in CicConfigs : M = c.M /\ R = c.R /\ W = c.W
    /\ CicReset
    /\ cic_fs \in Bit
    /\ cic_input \in CicInputs(W)
    /\ PdmIdle
    /\ EdtIdle
    /\ RefReset
    /\ ObsReset
    /\ cx = 0

TickCIC ==
    /\ tick < MaxTicks
    /\ CicTick
    /\ cic_fs' \in Bit
    /\ cic_input' \in CicInputs(W)
    /\ ObserveCic
    /\ UNCHANGED <<cfgVars, edtVars, pdmVars, pdmObs, refVars, patVars, cx,
                   i_hist, winVars, latVars>>

NextCIC == TickCIC

SpecCIC == InitCIC /\ [][NextCIC]_vars

\* The filter alone beside the same filter over unbounded integers

InitRef == InitCIC

TickRef ==
    /\ tick < MaxTicks
    /\ CicTick
    /\ RefTick
    /\ cic_fs' \in Bit
    /\ cic_input' \in CicInputs(W)
    /\ ObserveCic
    /\ UNCHANGED <<cfgVars, edtVars, pdmVars, pdmObs, patVars, cx, i_hist,
                   winVars, latVars>>

NextRef == TickRef

SpecRef == InitRef /\ [][NextRef]_vars

\* The single-stage filter (M = 1) with any strobe pattern and any input of
\* the signed W-bit range, beside the inputs it has latched

OneWidths == {2}
OneRatios == {1, 2, 3, 4}

RECURSIVE SumSeq(_)
SumSeq(q) == IF q = <<>> THEN 0 ELSE Head(q) + SumSeq(Tail(q))

\* the last R of the inputs latched
LastR(q) == IF Len(q) > R THEN Tail(q) ELSE q

ObserveWindow ==
    /\ win' = IF cic_fs = 1 THEN LastR(Append(win, cic_input)) ELSE win
    /\ trig_sum' = IF cic_fs = 1 /\ (strobes + 1) % R = 0
                   THEN SumSeq(win')
                   ELSE trig_sum
    /\ trig_sum_p' = trig_sum

InitOne ==
    /\ M = 1 /\ R \in OneRatios /\ W \in OneWidths
    /\ CicReset
    /\ cic_fs \in Bit
    /\ cic_input \in SignedRange(W)
    /\ PdmIdle
    /\ EdtIdle
    /\ RefReset
    /\ ObsReset
    /\ cx = 0

TickOne ==
    /\ tick < MaxTicks
    /\ CicTick
    /\ cic_fs' \in Bit
    /\ cic_input' \in SignedRange(W)
    /\ ObserveCic
    /\ ObserveWindow
    /\ UNCHANGED <<cfgVars, edtVars, pdmVars, pdmObs, refVars, patVars, cx,
                   i_hist, latVars>>

NextOne == TickOne

SpecOne == InitOne /\ [][NextOne]_vars

\* The filter fed one constant input on every strobe

InitGain ==
    /\ \E c \in CicConfigs : M = c.M /\ R = c.R /\ W = c.W
    /\ CicReset
    /\ cic_fs \in Bit
    /\ cx \in SignedRange(W)
    /\ cic_input = cx
    /\ PdmIdle
    /\ EdtIdle
    /\ RefReset
    /\ ObsReset

TickGain ==
    /\ tick < MaxGainTicks
    /\ CicTick
    /\ cic_fs' \in Bit
    /\ cic_input' = cx
    /\ ObserveCic
    /\ UNCHANGED <<cfgVars, edtVars, pdmVars, pdmObs, refVars, patVars, cx,
                   i_hist, winVars, latVars>>

NextGain == TickGain

SpecGain == InitGain /\ [][NextGain]_vars

-----------------------------------------------------------------------------
\* The edge detector alone: any input on every tick, reset never asserted

InitEdge ==
    /\ M = 1 /\ R = 2 /\ W = 1
    /\ CicReset
    /\ cic_fs = 0 /\ cic_input = 0
    /\ PdmIdle
    /\ edt_cnt = 0 /\ edt_reset = 0
    /\ edt_i \in Bit
    /\ RefReset
    /\ ObsReset
    /\ cx = 0

TickEdge ==
    /\ Len(i_hist) < MaxEdgeTicks
    /\ EdtTick
    /\ edt_i' \in Bit
    /\ i_hist' = Append(i_hist, edt_i)
    /\ UNCHANGED <<cfgVars, cicVars, pdmVars, pdmObs, refVars, patVars,
                   winVars, latVars, edt_reset,
                   tick, strobes, strobes_p, nvalid, cx>>

NextEdge == TickEdge

SpecEdge == InitEdge /\ [][NextEdge]_vars

\* The edge detector as PDM_TO_PCM wraps it: any input and any reset on every
\* tick

InitEdgeRst ==
    /\ M = 1 /\ R = 2 /\ W = 1
    /\ CicReset
    /\ cic_fs = 0 /\ cic_input = 0
    /\ PdmIdle
    /\ edt_cnt = 0
    /\ edt_reset \in Bit
    /\ edt_i \in Bit
    /\ RefReset
    /\ ObsReset
    /\ cx = 0

TickEdgeRst ==
    /\ Len(i_hist) < MaxEdgeTicks
    /\ EdtTick
    /\ edt_i' \in Bit
    /\ edt_reset' \in Bit
    /\ i_hist' = Append(i_hist, edt_i)
    /\ UNCHANGED <<cfgVars, cicVars, pdmVars, pdmObs, refVars, patVars,
                   winVars, latVars,
                   tick, strobes, strobes_p, nvalid, cx>>

NextEdgeRst == TickEdgeRst

SpecEdgeRst == InitEdgeRst /\ [][NextEdgeRst]_vars

-----------------------------------------------------------------------------
\* C2: the number of ticks on which valid has been high equals the number of
\* complete groups of R strobes among the strobes sampled two edges ago or
\* earlier: one valid tick per R strobes, none before the R-th, none otherwise.
C2_Cadence == nvalid = strobes_p \div R

\* two valid pulses have been seen, the strobes not all back to back
C2_Witness == nvalid >= 2 /\ tick > strobes + 1 /\ cic_valid = 1 /\ R >= 2

\* C3: with a constant input x, the output on a valid tick after more than
\* R*(M+1) strobes is exactly x * R^M.
C3_Gain ==
    (cic_valid = 1 /\ strobes > R * (M + 1)) => cic_output = cx * (R ^ M)

C3_Witness ==
    /\ cic_valid = 1 /\ strobes > R * (M + 1)
    /\ cx # 0 /\ M = 2 /\ R = 3 /\ cic_output = cx * 9

C5_BitClock ==
    [][SckToggles <=> (i2s_pulse_ena = 1 /\ sck_age = K - 1)]_vars

\* the bit clock is about to fall, K ticks after it rose, with K > 1
C5_Witness ==
    /\ K >= 2 /\ i2s_pulse_ena = 1 /\ sck_age = K - 1
    /\ i2s_sck = 1 /\ pulse_cnt >= 3

\* C6: i2s_ws starts at 0 and toggles at an edge exactly when i2s_sck toggles
\* for the 2*dw-th time since the last toggle of i2s_ws (or since reset).
C6_WordSelect ==
    /\ [](i2s_ws = ws_par)
    /\ [][WsToggles <=> (SckToggles /\ ws_age = 2 * dw - 1)]_vars

\* the right word is complete: i2s_ws is about to go back to 0
C6_Witness ==
    /\ i2s_ws = 1 /\ ws_age = 2 * dw - 1 /\ i2s_pulse_ena = 1
    /\ sck_age = K - 1

\* C7: on every tick, r is high exactly when the last two sampled inputs were
\* 0 then 1, f exactly when they were 1 then 0 (the input counting as low
\* before the first tick), and r and f are never high together.
C7_Edges ==
    LET T == Len(i_hist)
        In(k) == IF k >= 1 THEN i_hist[k] ELSE 0
    IN  /\ edt_r = 1 <=> (In(T - 1) = 0 /\ In(T) = 1)
        /\ edt_f = 1 <=> (In(T - 1) = 1 /\ In(T) = 0)
        /\ ~(edt_r = 1 /\ edt_f = 1)

\* a falling pulse that follows a rising pulse
C7_Witness ==
    /\ Len(i_hist) >= 4 /\ edt_f = 1
    /\ i_hist[Len(i_hist) - 2] = 0

\* C8: with N >= 2 and enable sampled high, fs is high after the edge exactly
\* when the rate counter held N-1 and the counter steps 0..N-1 cyclically; two
\* fs ticks of one enabled stretch are exactly N ticks apart, and N enabled
\* ticks never pass without one.
C8_Strobe ==
    /\ [](N >= 2 => /\ cnt \in 0..(N - 1)
                    /\ since_fs <= N - 1
                    /\ (ena_run >= N => since_fs >= 0)
                    /\ (fs = 1 => since_fs = 0))
    /\ [][(N >= 2 /\ ena = 1) =>
            /\ (fs' = 1 <=> cnt = N - 1)
            /\ cnt' = (cnt + 1) % N
            /\ ((fs' = 1 /\ since_fs >= 0) => since_fs = N - 1)]_vars

\* the second strobe of an uninterrupted run
C8_Witness ==
    /\ N >= 2 /\ fs = 1 /\ drops = 0 /\ ena_run = N /\ cic_cnt >= 1

\* C9: with N >= 2 and enable sampled high, the clock drive rises at an edge
\* exactly when fs rises, it is low after the edge at which the rate counter
\* held floor(N/2)-1, and over the N ticks that start with an fs tick it is
\* high on exactly floor(N/2).
C9_ClockDrive ==
    /\ [](N >= 2 =>
            /\ (since_fs = N - 1 => per_high = N \div 2)
            /\ (since_fs >= 0 =>
                    (pdm_clk_drive = 1 <=> since_fs < N \div 2)))
    /\ [][(N >= 2 /\ ena = 1) =>
            /\ ((pdm_clk_drive = 0 /\ pdm_clk_drive' = 1) <=>
                (fs = 0 /\ fs' = 1))
            /\ (cnt = (N \div 2) - 1 => pdm_clk_drive' = 0)]_vars

\* the last tick of a period of an odd divider
C9_Witness ==
    /\ N >= 2 /\ N % 2 = 1 /\ since_fs = N - 1
    /\ per_high = N \div 2 /\ pdm_clk_drive = 0

\* C10: after every edge that samples enable low, fs, the clock drive and
\* pulse-enable are 0, also when the filter's valid was high at that edge.
C10_CleanIdle ==
    [][ena = 0 =>
        (fs' = 0 /\ pdm_clk_drive' = 0 /\ i2s_pulse_ena' = 0)]_vars

\* valid fired while enable was low
C10_Witness ==
    /\ ena_p = 0 /\ valid_p = 1
    /\ fs = 0 /\ pdm_clk_drive = 0 /\ i2s_pulse_ena = 0

\* C11: after every edge that samples enable low, the rate counter, br_cnt,
\* pulse_cnt, i2s_sck, i2s_ws, both channel buffers, the active-channel flag
\* and the edge-detector history are all zero.
C11_ResetOnDisable ==
    [][ena = 0 =>
        /\ cnt' = 0 /\ br_cnt' = 0 /\ pulse_cnt' = 0
        /\ i2s_sck' = 0 /\ i2s_ws' = 0
        /\ buff_r' = 0 /\ buff_l' = 0 /\ is_right_chan' = 0
        /\ edt_cnt' = 0]_vars

\* C12: in the converter (W = 1, input 0 or 1) the filter output on every
\* valid tick equals the output of the filter over unbounded integers, which
\* lies in 0..R^M.
C12_WidthCoversGain ==
    cic_valid = 1 => (cic_output = u_output /\ u_output \in 0..(R ^ M))

\* C13: with every strobed input in the signed W-bit range, the output of the
\* filter whose registers wrap modulo 2^nbit equals, on every valid tick, the
\* output of the same filter over unbounded integers.
C13_Transparent == cic_valid = 1 => cic_output = u_output

\* a nonzero output on a valid tick while an integrator register differs from
\* its unbounded twin: it has wrapped
C13_Witness ==
    /\ M = 2 /\ R >= 2
    /\ cic_valid = 1 /\ u_output # 0 /\ cic_output = u_output
    /\ \E i \in 1..M : cic_di[i] # u_di[i]

\* C14: with M = 3, R = 50, dw = 16 and a PDM input of equal runs of 0 and 1,
\* every value latched into buff from a valid tick after settling (more than
\* R*(M+2) strobes sampled) is within one LSB of zero.
C14_ZeroMean ==
    (valid_p = 1 /\ strobes_p > R * (M + 2)) => buff \in (0 - 1)..1

C16_Polarity ==
    /\ [](IF pdm_clk_drive_f
          THEN pdm_sel = 0 /\ pdm_clk = pdm_clk_drive
          ELSE pdm_sel = 1 /\ pdm_clk = 1 - pdm_clk_drive)
    /\ [][~pdm_clk_drive_f =>
            /\ ena = 0 => pdm_clk' = 1
            /\ (N >= 2 /\ ena = 1) =>
                   ((pdm_clk = 1 /\ pdm_clk' = 0) <=> (fs = 0 /\ fs' = 1))]_vars

\* inverted polarity: the clock is low on an fs tick of an uninterrupted run
C16_Witness ==
    /\ ~pdm_clk_drive_f /\ pdm_sel = 1 /\ N >= 2
    /\ fs = 1 /\ pdm_clk = 0 /\ ena_run = N /\ drops = 0

C18_LoadRule ==
    /\ [][(i2s_pulse_ena = 1 /\ edt_f = 1) =>
            IF pulse_cnt = 2
            THEN /\ is_right_chan' = i2s_ws
                 /\ IF i2s_ws = 1
                    THEN buff_r' = buff /\ buff_l' = buff_l
                    ELSE buff_l' = buff /\ buff_r' = buff_r
            ELSE /\ is_right_chan' = is_right_chan
                 /\ IF is_right_chan = 1
                    THEN buff_r' = Wrap(2 * buff_r, dw) /\ buff_l' = buff_l
                    ELSE buff_l' = Wrap(2 * buff_l, dw) /\ buff_r' = buff_r]_vars
    /\ [][Loading => ws_age = 2]_vars
    /\ [][WsToggles => ld_n = 1]_vars

\* C19: at an edge with the filter's valid high, buff becomes the dw low bits
\* of the filter output shifted right arithmetically by ceil(log2(scale_factor))
\* (the quotient q with q*2^s <= output < (q+1)*2^s), whatever enable is, and
\* pulse-enable is set unless enable is low; at every other edge buff is
\* unchanged, whatever enable is.
C19_HoldingBuffer ==
    [][LET s == CeilLog2(scale_factor)
           q == CHOOSE x \in SignedRange(nbit) :
                    x * (2 ^ s) <= cic_output /\ cic_output < (x + 1) * (2 ^ s)
       IN  /\ cic_valid = 1 =>
                /\ buff' \in SignedRange(dw)
                /\ (buff' - q) % (2 ^ dw) = 0
                /\ ena = 1 => i2s_pulse_ena' = 1
           /\ cic_valid = 0 => buff' = buff]_vars

\* a value cut to dw bits was latched while enable was low
C19_Witness ==
    /\ valid_p = 1 /\ ena_p = 0 /\ i2s_pulse_ena = 0
    /\ buff < 0 /\ nbit > dw

\* C20: in CIC_FILTER, at an edge with fs low buff, cnt and every di[i] keep
\* their values and at an edge with fs high every di[i] takes intg[i]; at an
\* edge with the decimate-enable low comb[0] and every dc[i] keep their values
\* and at an edge with it high every dc[i] takes comb[i].
C20_Frame ==
    [][/\ cic_fs = 0 =>
            /\ cic_buff' = cic_buff /\ cic_cnt' = cic_cnt
            /\ \A i \in 1..M : cic_di'[i] = cic_di[i]
       /\ cic_fs = 1 => \A i \in 1..M : cic_di'[i] = intg(i)
       /\ cic_ena = 0 =>
            /\ cic_comb0' = cic_comb0
            /\ \A i \in 1..M : cic_dc'[i] = cic_dc[i]
       /\ cic_ena = 1 => \A i \in 1..M : cic_dc'[i] = comb(i)]_vars

\* registers that hold data are kept through a tick with neither strobe
C20_Witness ==
    /\ M = 2 /\ cic_fs = 0 /\ cic_ena = 0 /\ strobes < tick
    /\ cic_buff # 0 /\ cic_cnt # 0 /\ cic_di[2] # 0 /\ cic_dc[1] # 0

\* C21: for M = 1 the filter output on every valid tick equals, modulo 2^nbit,
\* the sum of the R inputs latched by the R strobes that end with the strobe
\* which triggered that valid (the strobe two ticks before it).
C21_SingleStage ==
    (M = 1 /\ cic_valid = 1) => cic_output = Wrap(trig_sum_p, nbit)

\* R = 4, W = 2, fs high on every tick, the inputs alternating +1, -1: the
\* output on the valid tick is 0
C21_Witness ==
    /\ M = 1 /\ R = 4 /\ W = 2 /\ strobes = tick
    /\ win = <<1, 0 - 1, 1, 0 - 1>>
    /\ cic_valid = 1 /\ trig_sum_p = 0 /\ cic_output = 0

\* C22 as stated: the divider N the rate counter uses is a nearest integer to
\* sys_clk_freq / fs_in: it differs from the ratio by at most one half.
C22_Rounded ==
    /\ 2 * N * fs_in <= 2 * sys_clk_freq + fs_in
    /\ 2 * N * fs_in >= 2 * sys_clk_freq - fs_in

\* C22 as amended: the divider N the rate counter uses is the truncation of
\* sys_clk_freq / fs_in, the largest integer not above the ratio; the rate
\* counter stays below it and fs follows the edge at which it held N-1.
C22_Truncated ==
    /\ [](/\ N * fs_in <= sys_clk_freq
          /\ sys_clk_freq < (N + 1) * fs_in
          /\ cnt <= N - 1)
    /\ [][ena = 1 => (fs' = 1 <=> cnt = N - 1)]_vars

\* an fs tick of a configuration whose ratio has a fractional part above one
\* half, so that truncation and rounding differ
C22_Witness ==
    /\ 2 * (sys_clk_freq % fs_in) > fs_in
    /\ N >= 2 /\ fs = 1 /\ cnt = 0 /\ nvalid >= 1

\* C23: after every edge with reset asserted the history is 0 (so both pulses
\* are low), and once two inputs have been sampled a pulse is high only if the
\* last two inputs sampled differ: an input held at one value across a reset
\* raises no pulse.
C23_ResetQuiet ==
    /\ [][edt_reset = 1 => edt_cnt' = 0]_vars
    /\ []((edt_r = 1 \/ edt_f = 1) =>
            (Len(i_hist) >= 2 =>
                i_hist[Len(i_hist)] # i_hist[Len(i_hist) - 1]))

\* C24: with N >= 1 and K >= 1, whatever the enable and the PDM bit do, the
\* rate counter stays within 0..N-1, br_cnt within 0..K-1, pulse_cnt within
\* 0..2*dw-1, the decimation counter within 0..R-1, and i2s_sck is the parity of
\* pulse_cnt; every toggle of i2s_ws is therefore a tick on which i2s_sck falls.
C24_Ranges ==
    /\ [](/\ N >= 1 /\ K >= 1
          /\ cnt \in 0..(N - 1)
          /\ br_cnt \in 0..(K - 1)
          /\ pulse_cnt \in 0..(2 * dw - 1)
          /\ cic_cnt \in 0..(R - 1)
          /\ i2s_sck = pulse_cnt % 2)
    /\ [][WsToggles => (i2s_sck = 1 /\ i2s_sck' = 0)]_vars

C24_Witness ==
    /\ N = 1 /\ ena = 0
    /\ i2s_ws = 1 /\ i2s_sck = 0 /\ pulse_cnt = 0 /\ br_cnt = K - 1
    /\ cic_cnt = R - 1 /\ cic_buff = 1

\* C25: with K >= 2 and enable never dropped, every load of the left channel
\* buffer after the first comes after exactly one sample was latched into the
\* holding buffer since the load before it.
C25_OncePerFrame ==
    [][(K >= 2 /\ LeftLoading /\ had_left = 1) => lat_n = 1]_vars

====
